---- MODULE Spec2Model ----
(***************************************************************************)
(* A model of the analytics core of the Stonks backend:                    *)
(*   find_trend_lines and align_timeseries   (backend/fetchers/analysis.py)*)
(*   calculate_investment                    (backend/fetchers/investment.py)*)
(*   run_gbm_forecast                        (backend/fetchers/forecast.py)*)
(* Each function is applied to inputs drawn from bounded sets; the         *)
(* forecaster additionally shares the process-global numpy generator       *)
(* between calls.  Money and prices are exact integers or rationals; a     *)
(* rational is a pair <<n, d>> in lowest terms with d > 0.                 *)
(***************************************************************************)
EXTENDS Integers, Sequences, FiniteSets, TLC

VARIABLES
    pc,                 \* "call" before the function under study ran, "done" after
    prices,             \* find_trend_lines: the price column, indexed from 0
    min_interval_days,  \* find_trend_lines: the minimal index gap of a pair
    trend_lines,        \* find_trend_lines: the returned {support, resistance}
    datasets,           \* align_timeseries: the list of fetched histories
    aligned,            \* align_timeseries: the returned (dates, columns)
    hist,               \* calculate_investment: the fetched history
    benchmark_hist,     \* calculate_investment: the fetched benchmark history
    initial_amount,     \* calculate_investment: lump sum
    recurring_amount,   \* calculate_investment: recurring contribution
    frequency,          \* calculate_investment: once, daily, weekly, monthly
    report,             \* calculate_investment: the returned report
    rng_state,          \* numpy's process-global generator state
    ref_call,           \* run_gbm_forecast: a remembered earlier call and its result
    last_call,          \* run_gbm_forecast: the latest call made and its result
    forecast_days,      \* run_gbm_forecast, statistics part: the forecast_days argument
    final_prices,       \* run_gbm_forecast, statistics part: price_paths[:, -1]
    current_price,      \* run_gbm_forecast, statistics part: the starting price
    risk_report,        \* run_gbm_forecast, statistics part: the figures reported
    CACHE,              \* base.py: the process-global cache, key -> {data, ts}
    clock,              \* datetime.now(), in whole seconds
    last_lookup,        \* get_cache: the latest lookup and what it returned
    last_analysis,      \* analyze_assets: the latest call and its result
    analysis_calls,     \* analyze_assets: the number of calls made
    asset_returns,      \* calculate_beta: the asset's return series
    market_returns,     \* calculate_beta: the market's return series
    beta,               \* calculate_beta: the returned beta
    alpha,              \* calculate_alpha: the returned alpha, << >> before the call
    correlation,        \* calculate_correlation: the returned value, << >> before
    price_series,       \* calculate_returns, calculate_rolling_stats: the prices argument
    rolling_window,     \* calculate_rolling_stats: the window argument
    series_returns,     \* calculate_returns: the returned list, << >> before the call
    rolling_stats       \* calculate_rolling_stats: the returned lists, << >> before

vars == <<pc, prices, min_interval_days, trend_lines, datasets, aligned, hist,
          benchmark_hist, initial_amount, recurring_amount, frequency, report, rng_state,
          ref_call, last_call, forecast_days, final_prices, current_price, risk_report,
          CACHE, clock, last_lookup, last_analysis, analysis_calls, asset_returns,
          market_returns, beta, alpha, correlation, price_series, rolling_window,
          series_returns, rolling_stats>>

trendVars == <<prices, min_interval_days, trend_lines>>
alignVars == <<datasets, aligned>>
investVars == <<hist, benchmark_hist, initial_amount, recurring_amount, frequency, report>>
forecastVars == <<rng_state, ref_call, last_call>>
riskVars == <<forecast_days, final_prices, current_price, risk_report>>

\* The value of a variable that the specification at hand does not use.
Idle == "idle"

IdleTrend == prices = Idle /\ min_interval_days = Idle /\ trend_lines = Idle
IdleAlign == datasets = Idle /\ aligned = Idle
IdleInvest ==
    /\ hist = Idle /\ benchmark_hist = Idle
    /\ initial_amount = Idle /\ recurring_amount = Idle
    /\ frequency = Idle /\ report = Idle
IdleForecast == rng_state = Idle /\ ref_call = Idle /\ last_call = Idle
IdleRisk ==
    /\ forecast_days = Idle /\ final_prices = Idle
    /\ current_price = Idle /\ risk_report = Idle

cacheVars == <<CACHE, clock, last_lookup>>
analysisVars == <<last_analysis, analysis_calls>>
IdleCache == CACHE = Idle /\ clock = Idle /\ last_lookup = Idle
IdleAnalysis == last_analysis = Idle /\ analysis_calls = Idle

betaVars == <<asset_returns, market_returns, beta, alpha, correlation>>
IdleBeta ==
    /\ asset_returns = Idle /\ market_returns = Idle /\ beta = Idle
    /\ alpha = Idle /\ correlation = Idle

coreVars == <<trendVars, alignVars, investVars, forecastVars>>
IdleCore == IdleTrend /\ IdleAlign /\ IdleInvest /\ IdleForecast

\* The variables of the components modelled after the first four.
seriesVars == <<price_series, rolling_window, series_returns, rolling_stats>>
IdleSeries ==
    /\ price_series = Idle /\ rolling_window = Idle
    /\ series_returns = Idle /\ rolling_stats = Idle

laterVars == <<riskVars, cacheVars, analysisVars, betaVars, seriesVars>>
IdleLater == IdleRisk /\ IdleCache /\ IdleAnalysis /\ IdleBeta /\ IdleSeries

\* Python's None where a price or an index is expected; modelled prices are >= 0.
None == -1

(***************************************************************************)
(* Arithmetic helpers                                                      *)
(***************************************************************************)
Abs(x) == IF x < 0 THEN -x ELSE x

Min2(a, b) == IF a <= b THEN a ELSE b

RECURSIVE GCD(_, _)
GCD(a, b) == IF b = 0 THEN a ELSE GCD(b, a % b)

\* The rational n/d in lowest terms with a positive denominator (d # 0).
Rat(n, d) ==
    LET g == GCD(Abs(n), Abs(d))
        s == IF d < 0 THEN -1 ELSE 1
    IN  <<(s * n) \div g, (s * d) \div g>>

RInt(n) == <<n, 1>>
RAdd(a, b) == Rat(a[1] * b[2] + b[1] * a[2], a[2] * b[2])
RSub(a, b) == Rat(a[1] * b[2] - b[1] * a[2], a[2] * b[2])
RMul(a, b) == Rat(a[1] * b[1], a[2] * b[2])
RDiv(a, b) == Rat(a[1] * b[2], a[2] * b[1])
RLt(a, b) == a[1] * b[2] < b[1] * a[2]
RPos(a) == a[1] > 0

(***************************************************************************)
(* find_trend_lines (analysis.py)                                          *)
(***************************************************************************)
\* Bounds of the price columns tried: a long column of SeriesLen points and a
\* column one short of the 20 points the function asks for.
SeriesLen == 41
MinTrendPoints == 20
window == 5

\* A null trend line, and the extremum that find_valid_pair returns for "none".
NoLine == [null |-> TRUE]
NoPoint == <<None, None>>

\* valid_data: the (index, price) pairs of the non-missing prices, in order.
RECURSIVE ValidFrom(_, _)
ValidFrom(p, i) ==
    IF i \notin DOMAIN p THEN << >>
    ELSE IF p[i] # None THEN <<(<<i, p[i]>>)>> \o ValidFrom(p, i + 1)
    ELSE ValidFrom(p, i + 1)

valid_data(p) == ValidFrom(p, 0)

\* Position k (1-based in the sequence v of valid points) is a local minimum:
\* no higher than each of the `window` points on either side.
IsLocalMin(v, k) ==
    \A j \in 1..window : v[k][2] <= v[k - j][2] /\ v[k][2] <= v[k + j][2]

IsLocalMax(v, k) ==
    \A j \in 1..window : v[k][2] >= v[k - j][2] /\ v[k][2] >= v[k + j][2]

\* The loop `for i in range(window, len(prices_arr) - window)` is, in 1-based
\* positions, k = window + 1 .. Len(v) - window.
RECURSIVE local_minima_from(_, _)
local_minima_from(v, k) ==
    IF k > Len(v) - window THEN << >>
    ELSE (IF IsLocalMin(v, k) THEN <<v[k]>> ELSE << >>) \o local_minima_from(v, k + 1)

RECURSIVE local_maxima_from(_, _)
local_maxima_from(v, k) ==
    IF k > Len(v) - window THEN << >>
    ELSE (IF IsLocalMax(v, k) THEN <<v[k]>> ELSE << >>) \o local_maxima_from(v, k + 1)

local_minima(v) == local_minima_from(v, window + 1)
local_maxima(v) == local_maxima_from(v, window + 1)

\* sorted(extrema, key=price): Python's sort is stable, so equal prices keep
\* their chronological order.  Insert x after every element that is not
\* strictly behind it.
RECURSIVE InsertByPrice(_, _, _)
InsertByPrice(s, x, descending) ==
    IF s = << >> THEN <<x>>
    ELSE IF (IF descending THEN Head(s)[2] >= x[2] ELSE Head(s)[2] <= x[2])
         THEN <<Head(s)>> \o InsertByPrice(Tail(s), x, descending)
         ELSE <<x>> \o s

RECURSIVE SortByPrice(_, _)
SortByPrice(s, descending) ==
    IF s = << >> THEN << >>
    ELSE InsertByPrice(SortByPrice(SubSeq(s, 1, Len(s) - 1), descending),
                       s[Len(s)], descending)

\* A variant of find_valid_pair that measures the gap as a distance.
find_valid_pair_abs(extrema, min_gap) ==
    LET ok == {ij \in (1..Len(extrema)) \X (1..Len(extrema)) :
                  /\ ij[1] < ij[2]
                  /\ Abs(extrema[ij[2]][1] - extrema[ij[1]][1]) >= min_gap}
    IN  IF ok = {} THEN <<NoPoint, NoPoint>>
        ELSE LET first == CHOOSE ij \in ok :
                     \A o \in ok : ij[1] < o[1] \/ (ij[1] = o[1] /\ ij[2] <= o[2])
             IN  <<extrema[first[1]], extrema[first[2]]>>

\* find_valid_pair: the first (i, j), i < j, in loop order with
\* extrema[j].index - extrema[i].index >= min_gap (a signed difference).
find_valid_pair(extrema, min_gap) ==
    LET ok == {ij \in (1..Len(extrema)) \X (1..Len(extrema)) :
                  /\ ij[1] < ij[2]
                  /\ extrema[ij[2]][1] - extrema[ij[1]][1] >= min_gap}
    IN  IF ok = {} THEN <<NoPoint, NoPoint>>
        ELSE LET first == CHOOSE ij \in ok :
                     \A o \in ok : ij[1] < o[1] \/ (ij[1] = o[1] /\ ij[2] <= o[2])
             IN  <<extrema[first[1]], extrema[first[2]]>>

\* create_trend_line: None unless both points exist; the points in index order,
\* the slope, and the line extended to the first and last valid index.
create_trend_line(p1, p2, v) ==
    IF p1 = NoPoint \/ p2 = NoPoint THEN NoLine
    ELSE LET a == IF p1[1] > p2[1] THEN p2 ELSE p1
             b == IF p1[1] > p2[1] THEN p1 ELSE p2
             slope == IF b[1] # a[1] THEN Rat(b[2] - a[2], b[1] - a[1]) ELSE RInt(0)
             start_idx == v[1][1]
             end_idx == v[Len(v)][1]
         IN  [null |-> FALSE,
              point1 |-> [index |-> a[1], price |-> a[2]],
              point2 |-> [index |-> b[1], price |-> b[2]],
              slope |-> slope,
              extended |->
                [start |-> [index |-> start_idx,
                            price |-> RAdd(RInt(a[2]), RMul(slope, RInt(start_idx - a[1])))],
                 end |-> [index |-> end_idx,
                          price |-> RAdd(RInt(a[2]), RMul(slope, RInt(end_idx - a[1])))]]]

sorted_minima(p) == SortByPrice(local_minima(valid_data(p)), FALSE)
sorted_maxima(p) == SortByPrice(local_maxima(valid_data(p)), TRUE)

find_trend_lines(p, min_gap) ==
    IF Cardinality(DOMAIN p) < MinTrendPoints THEN [support |-> NoLine, resistance |-> NoLine]
    ELSE LET v == valid_data(p)
         IN  IF Len(v) < MinTrendPoints THEN [support |-> NoLine, resistance |-> NoLine]
             ELSE LET s == find_valid_pair(sorted_minima(p), min_gap)
                      r == find_valid_pair(sorted_maxima(p), min_gap)
                  IN  [support |-> create_trend_line(s[1], s[2], v),
                       resistance |-> create_trend_line(r[1], r[2], v)]

\* The price columns tried: two valleys (or, mirrored, two peaks) with floors h1
\* and h2 at indices c1 < c2, optionally with one missing price.
Centres == {10, 14, 20, 26, 30}
Floors == {4, 5}
PeakTop == 40
MissingAt == {None, 3, 17}
Gaps == {10, 15}

TwoValleys(n, c1, h1, c2, h2) ==
    [i \in 0..(n - 1) |-> Min2(h1 + Abs(i - c1), h2 + Abs(i - c2))]

TrendInputs ==
    {[i \in DOMAIN q |-> IF i = m THEN None
                         ELSE IF up THEN PeakTop - q[i] ELSE q[i]] :
        q \in {TwoValleys(n, c[1], h[1], c[2], h[2]) :
                 n \in {MinTrendPoints - 1, SeriesLen},
                 c \in {x \in Centres \X Centres : x[1] < x[2]},
                 h \in Floors \X Floors},
        m \in MissingAt, up \in BOOLEAN}

InitTrend ==
    /\ pc = "call"
    /\ prices \in TrendInputs
    /\ min_interval_days \in Gaps
    /\ trend_lines = [support |-> NoLine, resistance |-> NoLine]
    /\ IdleAlign /\ IdleInvest /\ IdleForecast /\ IdleLater

FindTrendLines ==
    /\ pc = "call"
    /\ trend_lines' = find_trend_lines(prices, min_interval_days)
    /\ pc' = "done"
    /\ UNCHANGED <<prices, min_interval_days, alignVars, investVars, forecastVars, laterVars>>

NextTrend == FindTrendLines

SpecTrend == InitTrend /\ [][NextTrend]_vars

\* C1: the support line goes through the first pair of price-ascending local
\* minima whose index distance is at least min_interval_days, whichever of the
\* two comes first in time, and likewise the resistance line through the first
\* such pair of price-descending local maxima.
C1_FirstPairByDistance ==
    pc = "done" /\ Cardinality(DOMAIN prices) >= MinTrendPoints
                /\ Len(valid_data(prices)) >= MinTrendPoints =>
        LET v == valid_data(prices)
            s == find_valid_pair_abs(sorted_minima(prices), min_interval_days)
            r == find_valid_pair_abs(sorted_maxima(prices), min_interval_days)
        IN  /\ trend_lines.support = create_trend_line(s[1], s[2], v)
            /\ trend_lines.resistance = create_trend_line(r[1], r[2], v)

(***************************************************************************)
(* align_timeseries (analysis.py)                                          *)
(***************************************************************************)
\* Bounds of the histories tried: at most MaxDatasets datasets of at most
\* MaxAlignPoints points each, dated 1..MaxAlignDate (ISO date strings order as
\* the day numbers do).  Date 0 is a missing or empty date.
MaxDatasets == 2
MaxAlignPoints == 2
MaxAlignDate == 3
AlignPrices == {0, 10, 20}
Tickers == {"A", "B"}

\* Python truthiness of a number-or-None.
Truthy(x) == x # None /\ x # 0

\* point.get('Date') or point.get('date') or ''   (0 models '' and None)
PointDate(point) == IF Truthy(point.Date) THEN point.Date ELSE 0

\* point.get('Close') or point.get('close') or point.get('price'): the first
\* truthy of the closing prices, else whatever the 'price' field holds.  No
\* fetcher emits a lower-case 'close'.
PointPrice(point) == IF Truthy(point.Close) THEN point.Close ELSE point.price

\* The points of one dataset that align_timeseries records.
Recorded(point) == Truthy(PointDate(point)) /\ PointPrice(point) # None

\* prices_by_date of one dataset: a later point of the same date overwrites.
prices_by_date(data) ==
    LET ds == {PointDate(data[i]) : i \in {j \in 1..Len(data) : Recorded(data[j])}}
    IN  [d \in ds |->
            LET last == CHOOSE i \in 1..Len(data) :
                    /\ Recorded(data[i]) /\ PointDate(data[i]) = d
                    /\ \A j \in (i + 1)..Len(data) :
                           ~(Recorded(data[j]) /\ PointDate(data[j]) = d)
            IN  PointPrice(data[last])]

\* A collection of dates that misses every dataset but the first.
all_dates_first_only(dss) ==
    IF dss = << >> THEN {} ELSE DOMAIN prices_by_date(dss[1].data)

\* all_dates: every recorded date of every dataset.
all_dates(dss) == UNION {DOMAIN prices_by_date(dss[i].data) : i \in 1..Len(dss)}

\* ticker_data: a later dataset of the same ticker replaces the earlier one.
ticker_data(dss) ==
    [t \in {dss[i].ticker : i \in 1..Len(dss)} |->
        LET last == CHOOSE i \in 1..Len(dss) :
                /\ dss[i].ticker = t
                /\ \A j \in (i + 1)..Len(dss) : dss[j].ticker # t
        IN  prices_by_date(dss[last].data)]

\* sorted(all_dates)
RECURSIVE SortedSeq(_)
SortedSeq(S) ==
    IF S = {} THEN << >>
    ELSE LET m == CHOOSE x \in S : \A y \in S : x <= y
         IN  <<m>> \o SortedSeq(S \ {m})

\* A fill that records only the observation of the date itself.
RECURSIVE forward_fill_no_carry(_, _, _)
forward_fill_no_carry(dates, byDate, last_price) ==
    IF dates = << >> THEN << >>
    ELSE <<IF Head(dates) \in DOMAIN byDate THEN byDate[Head(dates)] ELSE None>>
         \o forward_fill_no_carry(Tail(dates), byDate, last_price)

\* The forward-fill loop over the sorted dates, carrying last_price.
RECURSIVE forward_fill(_, _, _)
forward_fill(dates, byDate, last_price) ==
    IF dates = << >> THEN << >>
    ELSE LET now == IF Head(dates) \in DOMAIN byDate THEN byDate[Head(dates)]
                    ELSE last_price
         IN  <<now>> \o forward_fill(Tail(dates), byDate, now)

align_timeseries(dss) ==
    LET sorted_dates == SortedSeq(all_dates(dss))
        td == ticker_data(dss)
    IN  [dates |-> sorted_dates,
         columns |-> [t \in DOMAIN td |-> forward_fill(sorted_dates, td[t], None)]]

\* The datasets tried.  A macro history carries each value under both 'Close'
\* and 'price' (fetch_asset_history); every other fetcher emits 'Close' only,
\* so that a zero close leaves no price at all.  One point without a date
\* stands for all of them.
AlignPoints(macro) ==
    {[Date |-> d, Close |-> c, price |-> IF macro THEN c ELSE None] :
        d \in 1..MaxAlignDate, c \in AlignPrices}
    \cup {[Date |-> 0, Close |-> 10, price |-> IF macro THEN 10 ELSE None]}

SeqsUpTo(S, n) == UNION {[1..k -> S] : k \in 0..n}

AlignDatasets ==
    {[ticker |-> t, data |-> pts] :
        t \in Tickers,
        pts \in SeqsUpTo(AlignPoints(FALSE), MaxAlignPoints)
                  \cup SeqsUpTo(AlignPoints(TRUE), MaxAlignPoints)}

InitAlign ==
    /\ pc = "call"
    /\ datasets \in {dss \in SeqsUpTo(AlignDatasets, MaxDatasets) :
                        dss # << >> => dss[1].ticker = "A"}
    /\ aligned = [dates |-> << >>, columns |-> << >>]
    /\ IdleTrend /\ IdleInvest /\ IdleForecast /\ IdleLater

AlignTimeseries ==
    /\ pc = "call"
    /\ aligned' = align_timeseries(datasets)
    /\ pc' = "done"
    /\ UNCHANGED <<datasets, trendVars, investVars, forecastVars, laterVars>>

NextAlign == AlignTimeseries

SpecAlign == InitAlign /\ [][NextAlign]_vars

\* Every point of every input dataset.
InputPoints ==
    UNION {{datasets[i].data[k] : k \in 1..Len(datasets[i].data)} : i \in 1..Len(datasets)}

StrictlyAscending(s) == \A i \in 1..(Len(s) - 1) : s[i] < s[i + 1]

SeqRange(s) == {s[i] : i \in 1..Len(s)}

\* C2 as stated: the date axis is the union of all dates appearing in any input
\* series, strictly ascending, and every column is as long as the axis.
C2_AxisIsUnionOfAllDates ==
    pc = "done" =>
        /\ SeqRange(aligned.dates) =
               {PointDate(p) : p \in {q \in InputPoints : Truthy(PointDate(q))}}
        /\ StrictlyAscending(aligned.dates)
        /\ \A t \in DOMAIN aligned.columns :
               Len(aligned.columns[t]) = Len(aligned.dates)

\* C2 amended: the date axis is the union of the dates of the points that carry
\* both a date and a price, strictly ascending (hence without duplicates), and
\* every column is as long as the axis.
C2_AxisIsUnionOfPricedDates ==
    pc = "done" =>
        /\ SeqRange(aligned.dates) =
               {PointDate(p) : p \in {q \in InputPoints : Recorded(q)}}
        /\ StrictlyAscending(aligned.dates)
        /\ \A t \in DOMAIN aligned.columns :
               Len(aligned.columns[t]) = Len(aligned.dates)

\* Two datasets of different tickers contribute different dates, one of them
\* out of order, and a dated point without a price is present.
C2_Witness ==
    /\ pc = "done"
    /\ Len(datasets) = 2
    /\ datasets[1].ticker # datasets[2].ticker
    /\ Len(aligned.dates) = 3
    /\ Len(datasets[1].data) = 2
    /\ PointDate(datasets[1].data[1]) > PointDate(datasets[1].data[2])
    /\ \E q \in InputPoints : Truthy(PointDate(q)) /\ ~Recorded(q)

\* The dataset a column is built from: the last one of that ticker.
ColumnSource(t) ==
    datasets[CHOOSE i \in 1..Len(datasets) :
                 /\ datasets[i].ticker = t
                 /\ \A j \in (i + 1)..Len(datasets) : datasets[j].ticker # t].data

\* The price of the most recent observation in data at or before date d, or
\* None when there is none (of two observations of one date, the later one).
LastObservation(data, d) ==
    LET obs == {k \in 1..Len(data) : Recorded(data[k]) /\ PointDate(data[k]) <= d}
    IN  IF obs = {} THEN None
        ELSE PointPrice(data[CHOOSE k \in obs : \A o \in obs :
                   \/ PointDate(data[o]) < PointDate(data[k])
                   \/ (PointDate(data[o]) = PointDate(data[k]) /\ o <= k)])

\* C3: in every column each position before the asset's first observation is
\* None, and each position at or after it holds the price of the asset's most
\* recent observation at or before that date.
C3_ForwardFillLaw ==
    pc = "done" =>
        \A t \in DOMAIN aligned.columns : \A i \in 1..Len(aligned.dates) :
            /\ i \in DOMAIN aligned.columns[t]
            /\ aligned.columns[t][i] = LastObservation(ColumnSource(t), aligned.dates[i])

\* A column that is unset before its first observation, observed twice at
\* different prices, and filled over a gap in between.
C3_Witness ==
    /\ pc = "done"
    /\ Len(aligned.dates) = 3
    /\ \E t \in DOMAIN aligned.columns : \E u \in DOMAIN aligned.columns :
          /\ aligned.columns[t] = <<None, 10, 10>>
          /\ aligned.columns[u] = <<10, 10, 20>>
          /\ Len(ColumnSource(t)) = 1
          /\ Len(ColumnSource(u)) = 2

(***************************************************************************)
(* calculate_investment (investment.py)                                    *)
(*                                                                         *)
(* A date 'YYYY-MM-DD' is the triple <<y, m, d>>: string order is the      *)
(* lexicographic order of the triple, and date[:7] is <<y, m>>.  Shares,   *)
(* values and percentages are exact rationals.  The figures that need      *)
(* roots or logarithms (cagr, volatility, sharpe_ratio) are left out.      *)
(***************************************************************************)
MinInvestPoints == 5
\* The longest history tried.
MaxInvestPoints == 5

NoDate == << >>

DateLe(a, b) ==
    \/ a[1] < b[1]
    \/ (a[1] = b[1] /\ a[2] < b[2])
    \/ (a[1] = b[1] /\ a[2] = b[2] /\ a[3] <= b[3])

\* datetime: the proleptic Gregorian ordinal of a date.
IsLeap(y) == y % 4 = 0 /\ (y % 100 # 0 \/ y % 400 = 0)

DaysInMonth(y, m) ==
    IF m = 2 THEN (IF IsLeap(y) THEN 29 ELSE 28)
    ELSE IF m \in {4, 6, 9, 11} THEN 30 ELSE 31

RECURSIVE DaysBeforeMonth(_, _)
DaysBeforeMonth(y, m) ==
    IF m = 1 THEN 0 ELSE DaysBeforeMonth(y, m - 1) + DaysInMonth(y, m - 1)

DaysBeforeYear(y) ==
    (y - 1) * 365 + ((y - 1) \div 4) - ((y - 1) \div 100) + ((y - 1) \div 400)

Ordinal(date) == DaysBeforeYear(date[1]) + DaysBeforeMonth(date[1], date[2]) + date[3]

\* The ordinal of the Monday that starts ISO week 1 of year y.
IsoWeek1Monday(y) ==
    LET firstday == Ordinal(<<y, 1, 1>>)
        firstweekday == (firstday + 6) % 7
        monday == firstday - firstweekday
    IN  IF firstweekday > 3 THEN monday + 7 ELSE monday

\* dt.isocalendar() as <<ISO year, ISO week>>.
IsoCalendar(date) ==
    LET y == date[1]
        today == Ordinal(date)
        m1 == IsoWeek1Monday(y)
    IN  IF today < m1
        THEN <<y - 1, ((today - IsoWeek1Monday(y - 1)) \div 7) + 1>>
        ELSE IF (today - m1) \div 7 >= 52 /\ today >= IsoWeek1Monday(y + 1)
        THEN <<y + 1, 1>>
        ELSE <<y, ((today - m1) \div 7) + 1>>

\* week_key = f"{dt.year}-{dt.isocalendar()[1]}": the calendar year with the
\* ISO week number.
week_key(date) == <<date[1], IsoCalendar(date)[2]>>

\* month_key = dp['date'][:7]
month_key(date) == <<date[1], date[2]>>

\* benchmark_data: date -> price of the benchmark points that have both, or
\* the empty map when the benchmark fetch raised, answered an error record or
\* gave no data (None in the code, which reads it the same way).
benchmark_data(bh) ==
    IF bh.raised \/ ~bh.ok THEN << >>
    ELSE LET good == {i \in 1..Len(bh.data) :
                         bh.data[i].Date # NoDate /\ Truthy(bh.data[i].Close)}
         IN  [d \in {bh.data[i].Date : i \in good} |->
                 bh.data[CHOOSE i \in good :
                     /\ bh.data[i].Date = d
                     /\ \A j \in good : bh.data[j].Date = d => j <= i].Close]

\* Data points that are kept only where the benchmark has a price.
RECURSIVE extract_points_joined(_, _)
extract_points_joined(data, bd) ==
    IF data = << >> THEN << >>
    ELSE LET point == Head(data)
         IN  (IF Truthy(point.Close) /\ point.Close > 0 /\ point.Date \in DOMAIN bd
              THEN <<[date |-> point.Date, price |-> point.Close,
                      benchmark_price |-> bd[point.Date]]>>
              ELSE << >>) \o extract_points_joined(Tail(data), bd)

\* data_points before sorting: the points with a positive price and a date.
RECURSIVE extract_points(_, _)
extract_points(data, bd) ==
    IF data = << >> THEN << >>
    ELSE LET point == Head(data)
         IN  (IF Truthy(point.Close) /\ point.Close > 0 /\ point.Date # NoDate
              THEN <<[date |-> point.Date, price |-> point.Close,
                      benchmark_price |-> IF point.Date \in DOMAIN bd
                                          THEN bd[point.Date] ELSE None]>>
              ELSE << >>) \o extract_points(Tail(data), bd)

\* Data points left in the order of the fetched history.
SortByDate_unsorted(s) == s

\* data_points.sort(key=date): stable.
RECURSIVE InsertByDate(_, _)
InsertByDate(s, x) ==
    IF s = << >> THEN <<x>>
    ELSE IF DateLe(Head(s).date, x.date)
         THEN <<Head(s)>> \o InsertByDate(Tail(s), x)
         ELSE <<x>> \o s

RECURSIVE SortByDate(_)
SortByDate(s) ==
    IF s = << >> THEN << >>
    ELSE InsertByDate(SortByDate(SubSeq(s, 1, Len(s) - 1)), s[Len(s)])

\* The key whose change starts a new contribution period.
period_key(freq, date) == IF freq = "weekly" THEN week_key(date) ELSE month_key(date)

\* The loop of the weekly and monthly branches from point i on: the date of
\* every point whose key differs from `current`, the key of the latest date
\* added (<< >> models the initial None, <<k>> the key k).
RECURSIVE period_starts(_, _, _, _)
period_starts(dps, i, current, freq) ==
    IF i > Len(dps) THEN {}
    ELSE IF <<period_key(freq, dps[i].date)>> # current
         THEN {dps[i].date}
              \cup period_starts(dps, i + 1, <<period_key(freq, dps[i].date)>>, freq)
         ELSE period_starts(dps, i + 1, current, freq)

\* investment_dates: the dates that receive a recurring contribution.
investment_dates(dps, freq, recurring) ==
    IF freq = "daily" /\ recurring > 0 THEN {dps[i].date : i \in 2..Len(dps)}
    ELSE IF freq \in {"weekly", "monthly"} /\ recurring > 0
         THEN period_starts(dps, 2, << >>, freq)
         ELSE {}

\* total_invested += amount, written as an assignment.
invested_after_overwrite(total, paid) == IF paid # 0 THEN paid ELSE total

\* total_invested += amount
invested_after(total, paid) == total + paid

\* The state of the replay loop before the first data point.
replay_start ==
    [shares_bought |-> RInt(0), total_invested |-> 0, num_purchases |-> 0,
     benchmark_shares |-> RInt(0), is_first |-> TRUE, peak_value |-> RInt(0),
     max_drawdown |-> RInt(0), timeline |-> << >>]

\* One iteration of `for dp in data_points`.
replay_step(st, dp, initial, recurring, inv_dates) ==
    LET buy_initial == st.is_first /\ initial > 0
        buy_recurring == dp.date \in inv_dates /\ recurring > 0
        paid == (IF buy_initial THEN initial ELSE 0)
                    + (IF buy_recurring THEN recurring ELSE 0)
        shares == RAdd(st.shares_bought, Rat(paid, dp.price))
        invested == invested_after(st.total_invested, paid)
        bshares == IF Truthy(dp.benchmark_price)
                   THEN RAdd(st.benchmark_shares, Rat(paid, dp.benchmark_price))
                   ELSE st.benchmark_shares
        current_value == RMul(shares, RInt(dp.price))
        benchmark_value == IF Truthy(dp.benchmark_price) /\ RPos(bshares)
                           THEN <<RMul(bshares, RInt(dp.benchmark_price))>> ELSE << >>
        peak == IF RLt(st.peak_value, current_value) THEN current_value ELSE st.peak_value
        drawdown == IF RPos(peak)
                    THEN RMul(RDiv(RSub(peak, current_value), peak), RInt(100))
                    ELSE RInt(0)
    IN  [shares_bought |-> shares,
         total_invested |-> invested,
         num_purchases |-> st.num_purchases + (IF buy_initial THEN 1 ELSE 0)
                                            + (IF buy_recurring THEN 1 ELSE 0),
         benchmark_shares |-> bshares,
         is_first |-> st.is_first /\ ~buy_initial,
         peak_value |-> peak,
         max_drawdown |-> IF RLt(st.max_drawdown, drawdown) THEN drawdown
                          ELSE st.max_drawdown,
         timeline |-> Append(st.timeline,
            [date |-> dp.date, price |-> dp.price, shares |-> shares,
             value |-> current_value, invested |-> invested,
             invested_today |-> paid, drawdown |-> drawdown,
             profit_loss |-> RSub(current_value, RInt(invested)),
             return_pct |-> IF invested > 0
                            THEN RMul(RSub(RDiv(current_value, RInt(invested)), RInt(1)),
                                      RInt(100))
                            ELSE RInt(0),
             benchmark_price |-> dp.benchmark_price,
             benchmark_value |-> benchmark_value])]

RECURSIVE replay(_, _, _, _, _)
replay(st, dps, initial, recurring, inv_dates) ==
    IF dps = << >> THEN st
    ELSE replay(replay_step(st, Head(dps), initial, recurring, inv_dates),
                Tail(dps), initial, recurring, inv_dates)

\* The monthly-returns loop from snapshot i on: `current` is the month being
\* tracked (<< >> for None), start_value the value of its first snapshot.
RECURSIVE monthly_returns_from(_, _, _, _)
monthly_returns_from(tl, i, current, start_value) ==
    IF i > Len(tl) THEN << >>
    ELSE IF <<month_key(tl[i].date)>> # current
         THEN (IF current # << >> /\ RPos(start_value)
               THEN <<[month |-> current[1],
                       return_pct |-> RMul(RSub(RDiv(tl[i].value, start_value), RInt(1)),
                                           RInt(100))]>>
               ELSE << >>)
              \o monthly_returns_from(tl, i + 1, <<month_key(tl[i].date)>>, tl[i].value)
         ELSE monthly_returns_from(tl, i + 1, current, start_value)

monthly_returns(tl) == monthly_returns_from(tl, 1, << >>, RInt(0))

\* A baseline that buys at the end price and sells at the start price.
buy_hold_final_swapped(total_invested, start_price, end_price) ==
    IF end_price > 0 THEN RMul(Rat(total_invested, end_price), RInt(start_price))
    ELSE RInt(0)

\* bh_final: total_invested put into the asset at the start price.
buy_hold_final(total_invested, start_price, end_price) ==
    IF start_price > 0 THEN RMul(Rat(total_invested, start_price), RInt(end_price))
    ELSE RInt(0)

\* (x / total_invested) * 100 if total_invested > 0 else 0
pct_of_invested(x, total_invested) ==
    IF total_invested > 0 THEN RMul(RDiv(x, RInt(total_invested)), RInt(100))
    ELSE RInt(0)

ErrorReport == [error |-> TRUE]

calculate_investment(h, bh, initial, recurring, freq) ==
    IF h.error \/ h.data = << >> THEN ErrorReport
    ELSE LET unsorted == extract_points(h.data, benchmark_data(bh))
         IN  IF Len(unsorted) < MinInvestPoints THEN ErrorReport
             ELSE
    LET dps == SortByDate(unsorted)
        start_price == dps[1].price
        end_price == dps[Len(dps)].price
        benchmark_start == dps[1].benchmark_price
        benchmark_end == dps[Len(dps)].benchmark_price
        st == replay(replay_start, dps, initial, recurring,
                     investment_dates(dps, freq, recurring))
        final_value == RMul(st.shares_bought, RInt(end_price))
        total_return == RSub(final_value, RInt(st.total_invested))
        total_return_pct == pct_of_invested(total_return, st.total_invested)
        bh_final == buy_hold_final(st.total_invested, start_price, end_price)
        bh_return_pct == pct_of_invested(RSub(bh_final, RInt(st.total_invested)),
                                         st.total_invested)
        months == monthly_returns(st.timeline)
        benchmark_final == RMul(st.benchmark_shares, RInt(benchmark_end))
        benchmark_return_pct ==
            IF st.total_invested > 0
            THEN RMul(RSub(RDiv(benchmark_final, RInt(st.total_invested)), RInt(1)),
                      RInt(100))
            ELSE RInt(0)
    IN  [error |-> FALSE,
         frequency |-> freq,
         start_date |-> dps[1].date,
         end_date |-> dps[Len(dps)].date,
         start_price |-> start_price,
         end_price |-> end_price,
         investment |->
            [initial_amount |-> initial,
             recurring_amount |-> recurring,
             total_invested |-> st.total_invested,
             num_purchases |-> st.num_purchases,
             shares_bought |-> st.shares_bought],
         results |->
            [final_value |-> final_value,
             total_return |-> total_return,
             total_return_pct |-> total_return_pct],
         risk_metrics |-> [max_drawdown |-> st.max_drawdown],
         comparison |->
            [buy_hold_return_pct |-> bh_return_pct,
             buy_hold_final_value |-> bh_final,
             dca_advantage |-> RSub(total_return_pct, bh_return_pct)],
         benchmark_comparison |->
            IF Truthy(benchmark_start) /\ Truthy(benchmark_end) /\ RPos(st.benchmark_shares)
            THEN <<[benchmark_start_price |-> benchmark_start,
                    benchmark_end_price |-> benchmark_end,
                    benchmark_final_value |-> benchmark_final,
                    benchmark_return_pct |-> benchmark_return_pct,
                    alpha |-> RSub(total_return_pct, benchmark_return_pct),
                    outperformed |-> RLt(benchmark_return_pct, total_return_pct)]>>
            ELSE << >>,
         \* monthly_returns is the list the analysis is computed from; the
         \* report itself carries its length, extremes and counts.
         monthly_analysis |->
            [monthly_returns |-> months,
             total_months |-> Len(months),
             winning_months |->
                Cardinality({i \in 1..Len(months) : months[i].return_pct[1] > 0}),
             losing_months |->
                Cardinality({i \in 1..Len(months) : months[i].return_pct[1] < 0})],
         timeline |-> st.timeline]

\* The histories tried: MinInvestPoints - 1 .. MaxInvestPoints points on
\* trading dates around the 2024/2025 year boundary (Fri 27 Dec and Mon 30 Dec
\* 2024, Thu 2 Jan, Mon 6 Jan and Mon 3 Feb 2025), up to MaxSameDate points on
\* one date (intraday data), delivered oldest first or newest first.
MaxSameDate == 2
InvestDates ==
    << <<2024, 12, 27>>, <<2024, 12, 30>>, <<2025, 1, 2>>, <<2025, 1, 6>>, <<2025, 2, 3>> >>
InvestPrices == {1, 2}
InitialAmounts == {-1, 0, 2}
RecurringAmounts == {0, 1}
Frequencies == {"once", "daily", "weekly", "monthly", "yearly"}

Reverse(s) == [i \in 1..Len(s) |-> s[Len(s) + 1 - i]]

InvestData ==
    {IF newest_first THEN Reverse(pts) ELSE pts :
        pts \in UNION {
            {[i \in 1..n |-> [Date |-> InvestDates[f[i]], Close |-> pr[i]]] :
                f \in {g \in [1..n -> 1..Len(InvestDates)] :
                          /\ \A i \in 1..(n - 1) : g[i] <= g[i + 1]
                          /\ \A i \in 1..(n - MaxSameDate) : g[i] # g[i + MaxSameDate]},
                pr \in [1..n -> InvestPrices]} :
            n \in (MinInvestPoints - 1)..MaxInvestPoints},
        newest_first \in BOOLEAN}

\* Histories of one point per date, oldest first, with one more point that
\* has no usable price or no date.
InvalidPoints ==
    {[Date |-> InvestDates[3], Close |-> 0], [Date |-> InvestDates[3], Close |-> None],
     [Date |-> NoDate, Close |-> 1]}

InsertAt(s, k, x) == SubSeq(s, 1, k - 1) \o <<x>> \o SubSeq(s, k, Len(s))

InvestDataInvalid ==
    {InsertAt([i \in 1..Len(InvestDates) |-> [Date |-> InvestDates[i], Close |-> pr[i]]],
              k, x) :
        pr \in [1..Len(InvestDates) -> InvestPrices],
        k \in {1, 3, Len(InvestDates) + 1},
        x \in InvalidPoints}

\* What the benchmark fetch can do: answer an error record, raise, answer no
\* data, or answer a history: one with a price on every date, or one that
\* has no point for 2 Jan and a close of 0.0 on 6 Jan.
BenchmarkError == [ok |-> FALSE, raised |-> FALSE, data |-> << >>]
BenchmarkRaise == [ok |-> FALSE, raised |-> TRUE, data |-> << >>]
BenchmarkNoData == [ok |-> TRUE, raised |-> FALSE, data |-> << >>]
BenchmarkFailures == {BenchmarkError, BenchmarkRaise, BenchmarkNoData}

BenchmarkPrices == <<2, 1, 2, 4, 4>>
BenchmarkFull ==
    [ok |-> TRUE, raised |-> FALSE,
     data |-> [i \in 1..Len(InvestDates) |->
                  [Date |-> InvestDates[i], Close |-> BenchmarkPrices[i]]]]
BenchmarkGaps ==
    [ok |-> TRUE, raised |-> FALSE,
     data |-> [i \in 1..(Len(InvestDates) - 1) |->
                  IF i < 3 THEN BenchmarkFull.data[i]
                  ELSE IF i = 3 THEN [Date |-> InvestDates[4], Close |-> 0]
                  ELSE BenchmarkFull.data[i + 1]]]
BenchmarkWorking == {BenchmarkFull, BenchmarkGaps}

\* A history of valid points on different dates, oldest first: the histories
\* for which every benchmark answer is tried; the others are tried with the
\* error record.
OldestFirstDistinct(h) ==
    /\ ~h.error
    /\ \A i \in 1..Len(h.data) : h.data[i].Date # NoDate /\ h.data[i].Close > 0
    /\ \A i \in 1..(Len(h.data) - 1) :
          ~DateLe(h.data[i + 1].Date, h.data[i].Date)

InitInvest ==
    /\ pc = "call"
    /\ hist \in {[error |-> TRUE, data |-> << >>]}
                  \cup {[error |-> FALSE, data |-> d] : d \in InvestData \cup InvestDataInvalid}
    /\ benchmark_hist \in IF OldestFirstDistinct(hist)
                           THEN BenchmarkFailures \cup BenchmarkWorking
                           ELSE {BenchmarkError}
    /\ initial_amount \in InitialAmounts
    /\ recurring_amount \in RecurringAmounts
    /\ frequency \in Frequencies
    /\ report = [error |-> FALSE]
    /\ IdleTrend /\ IdleAlign /\ IdleForecast /\ IdleLater

CalculateInvestment ==
    /\ pc = "call"
    /\ report' = calculate_investment(hist, benchmark_hist, initial_amount,
                                      recurring_amount, frequency)
    /\ pc' = "done"
    /\ UNCHANGED <<hist, benchmark_hist, initial_amount, recurring_amount, frequency,
                   trendVars, alignVars, forecastVars, laterVars>>

NextInvest == CalculateInvestment

SpecInvest == InitInvest /\ [][NextInvest]_vars

InvestOk == pc = "done" /\ ~report.error

TL == report.timeline

\* What the initial lump sum adds to total_invested.
InitialPaid == IF initial_amount > 0 THEN initial_amount ELSE 0

\* Snapshot i received a recurring contribution: what was paid that day beyond
\* the lump sum of the first snapshot is one recurring amount.
RecurringAt(i) ==
    /\ recurring_amount > 0
    /\ TL[i].invested_today - (IF i = 1 THEN InitialPaid ELSE 0) = recurring_amount

NumRecurring == Cardinality({i \in 1..Len(TL) : RecurringAt(i)})

\* The shares bought over the timeline: each day's payment at that day's price.
RECURSIVE SharesUpTo(_)
SharesUpTo(i) ==
    IF i = 0 THEN RInt(0)
    ELSE RAdd(SharesUpTo(i - 1), Rat(TL[i].invested_today, TL[i].price))

\* C4 as stated: final_value is the cumulative shares bought times the end
\* price, and total_invested is initial_amount plus recurring_amount times the
\* number of recurring contributions made.
C4_ReplayInvariant ==
    InvestOk =>
        /\ report.results.final_value = RMul(SharesUpTo(Len(TL)), RInt(TL[Len(TL)].price))
        /\ report.investment.shares_bought = SharesUpTo(Len(TL))
        /\ report.investment.total_invested
               = initial_amount + recurring_amount * NumRecurring

\* C4 amended: final_value is the cumulative shares bought times the end
\* price, and total_invested is the initial amount if it is positive (else 0)
\* plus recurring_amount times the number of recurring contributions made.
C4_ReplayInvariantPositiveInitial ==
    InvestOk =>
        /\ report.results.final_value = RMul(SharesUpTo(Len(TL)), RInt(TL[Len(TL)].price))
        /\ report.investment.shares_bought = SharesUpTo(Len(TL))
        /\ report.investment.total_invested
               = InitialPaid + recurring_amount * NumRecurring

\* A lump sum and at least two recurring contributions at changing prices.
C4_Witness ==
    /\ InvestOk
    /\ initial_amount > 0
    /\ NumRecurring >= 2
    /\ report.start_price # report.end_price
    /\ \E i \in 1..Len(TL) : RecurringAt(i) /\ TL[i].price # report.end_price

\* Snapshot i carries the earliest date of its calendar month.
FirstDateOfMonth(i) ==
    \A j \in 1..Len(TL) :
        month_key(TL[j].date) = month_key(TL[i].date) => DateLe(TL[i].date, TL[j].date)

\* Snapshot i carries the earliest date of its ISO calendar week.
FirstDateOfIsoWeek(i) ==
    \A j \in 1..Len(TL) :
        IsoCalendar(TL[j].date) = IsoCalendar(TL[i].date) => DateLe(TL[i].date, TL[j].date)

\* No two snapshots carry the same date.
DistinctDates == \A i \in 1..Len(TL) : \A j \in 1..Len(TL) : TL[i].date = TL[j].date => i = j

\* C5: with frequency 'monthly' and recurring_amount > 0 the data points after
\* the first that receive a recurring contribution are exactly those on the
\* first trading date of their calendar month (stated for histories of
\* distinct dates and a positive lump sum).
C5_MonthlyOnFirstDateOfMonth ==
    InvestOk /\ frequency = "monthly" /\ recurring_amount > 0
             /\ initial_amount > 0 /\ DistinctDates =>
        \A i \in 2..Len(TL) : RecurringAt(i) <=> FirstDateOfMonth(i)

\* C6: with frequency 'weekly' and recurring_amount > 0 the data points after
\* the first that receive a recurring contribution are exactly those on the
\* first trading date of their ISO calendar week (stated for histories of
\* distinct dates and a positive lump sum).
C6_WeeklyOnFirstDateOfIsoWeek ==
    InvestOk /\ frequency = "weekly" /\ recurring_amount > 0
             /\ initial_amount > 0 /\ DistinctDates =>
        \A i \in 2..Len(TL) : RecurringAt(i) <=> FirstDateOfIsoWeek(i)

\* C7: the first snapshot receives the initial lump sum only: invested_today
\* is initial_amount, or 0 if initial_amount <= 0 (stated for a positive lump
\* sum).
C7_FirstSnapshotLumpSumOnly ==
    InvestOk /\ initial_amount > 0 => TL[1].invested_today = initial_amount

TimelineMonths == {month_key(TL[i].date) : i \in 1..Len(TL)}
FirstOfMonth(m) == CHOOSE i \in 1..Len(TL) :
    month_key(TL[i].date) = m /\ \A j \in 1..(i - 1) : month_key(TL[j].date) # m
LastOfMonth(m) == CHOOSE i \in 1..Len(TL) :
    month_key(TL[i].date) = m /\ \A j \in (i + 1)..Len(TL) : month_key(TL[j].date) # m

\* C9: the monthly analysis holds one return per calendar month of the
\* timeline, each being (value on the month's last trading date / value on its
\* first trading date - 1) x 100.
C9_OneReturnPerMonth ==
    InvestOk /\ initial_amount > 0 /\ DistinctDates =>
        LET mr == report.monthly_analysis.monthly_returns
        IN  /\ report.monthly_analysis.total_months = Cardinality(TimelineMonths)
            /\ {mr[k].month : k \in 1..Len(mr)} = TimelineMonths
            /\ \A k \in 1..Len(mr) :
                   mr[k].return_pct =
                       RMul(RSub(RDiv(TL[LastOfMonth(mr[k].month)].value,
                                      TL[FirstOfMonth(mr[k].month)].value), RInt(1)),
                            RInt(100))

\* A report with its benchmark fields emptied: no benchmark_comparison, and
\* in every snapshot no benchmark_price and no benchmark_value.
WithoutBenchmark(r) ==
    IF r.error THEN r
    ELSE [r EXCEPT !.benchmark_comparison = << >>,
                   !.timeline = [i \in 1..Len(r.timeline) |->
                                    [r.timeline[i] EXCEPT !.benchmark_price = None,
                                                          !.benchmark_value = << >>]]]

\* C27: a benchmark fetch that answers an error record or no data, or that
\* raises, does not fail the call: the report is the report of the same call
\* with a working benchmark, but for an empty benchmark_comparison and empty
\* benchmark fields in every snapshot.
C27_BenchmarkFailureNonFatal ==
    pc = "done" /\ benchmark_hist \in BenchmarkFailures =>
        \A b \in BenchmarkWorking :
            report = WithoutBenchmark(calculate_investment(hist, b, initial_amount,
                                                           recurring_amount, frequency))

\* The benchmark fetch raised, a report with recurring contributions was
\* returned, and a working benchmark would have added a comparison to it.
C27_Witness ==
    /\ InvestOk
    /\ benchmark_hist = BenchmarkRaise
    /\ recurring_amount > 0 /\ frequency = "daily"
    /\ calculate_investment(hist, BenchmarkFull, initial_amount, recurring_amount,
                            frequency).benchmark_comparison # << >>

\* The positions of the fetched points that have a date and a positive price.
ValidPoints ==
    {i \in 1..Len(hist.data) :
        /\ hist.data[i].Date # NoDate
        /\ Truthy(hist.data[i].Close) /\ hist.data[i].Close > 0}

\* C28: the timeline has one snapshot per valid data point, in ascending
\* order of date; with non-negative amounts the shares and the amount
\* invested never decrease; each value is shares times price; each drawdown
\* lies in [0, 100]; max_drawdown is the largest drawdown of the snapshots.
C28_TimelineMonotone ==
    InvestOk =>
        LET md == report.risk_metrics.max_drawdown
        IN  /\ Len(TL) = Cardinality(ValidPoints)
            /\ {<<TL[i].date, TL[i].price>> : i \in 1..Len(TL)}
                   = {<<hist.data[i].Date, hist.data[i].Close>> : i \in ValidPoints}
            /\ \A i \in 1..(Len(TL) - 1) :
                  /\ DateLe(TL[i].date, TL[i + 1].date)
                  /\ initial_amount >= 0 /\ recurring_amount >= 0 =>
                        /\ ~RLt(TL[i + 1].shares, TL[i].shares)
                        /\ TL[i].invested <= TL[i + 1].invested
            /\ \A i \in 1..Len(TL) :
                  /\ TL[i].value = RMul(TL[i].shares, RInt(TL[i].price))
                  /\ ~RLt(TL[i].drawdown, RInt(0))
                  /\ ~RLt(RInt(100), TL[i].drawdown)
                  /\ ~RLt(md, TL[i].drawdown)
            /\ \E i \in 1..Len(TL) : TL[i].drawdown = md

\* A point without a usable price was left out, shares were bought after the
\* first day, and the value fell below its peak.
C28_Witness ==
    /\ InvestOk
    /\ Len(TL) < Len(hist.data)
    /\ initial_amount > 0
    /\ \E i \in 1..(Len(TL) - 1) : RLt(TL[i].shares, TL[i + 1].shares)
    /\ RPos(report.risk_metrics.max_drawdown)
    /\ \E i \in 1..Len(TL) : RPos(TL[i].drawdown) /\ TL[i].drawdown # report.risk_metrics.max_drawdown

\* The amount paid on the days up to snapshot i on which the benchmark has a
\* price: what the replay converts into benchmark shares.
RECURSIVE BenchmarkConverted(_)
BenchmarkConverted(i) ==
    IF i = 0 THEN 0
    ELSE BenchmarkConverted(i - 1)
         + (IF Truthy(TL[i].benchmark_price) THEN TL[i].invested_today ELSE 0)

\* C29: whenever a benchmark_comparison is reported, the amount converted
\* into benchmark shares is total_invested.
C29_BenchmarkInvestsSameAmounts ==
    InvestOk /\ report.benchmark_comparison # << >> =>
        BenchmarkConverted(Len(TL)) = report.investment.total_invested

(***************************************************************************)
(* run_gbm_forecast (forecast.py)                                          *)
(*                                                                         *)
(* Prices are powers of two, so that logarithms are exact in units of      *)
(* ln 2.  numpy's generator is a deterministic stream: a state, a step     *)
(* and a standard normal variate read off the state; a normal draw is      *)
(* loc + scale * z.  A simulated price is                                  *)
(*     current_price * exp(k * loc + scale * Z)                            *)
(* with Z the sum of the first k variates of the path; a path is recorded  *)
(* as the sequence of its Z, next to the calibration (current_price,       *)
(* daily_mean, daily_var) that fixes loc and scale.                        *)
(***************************************************************************)
GBM_SEED == 42
MinForecastPoints == 20
\* Bounds: the generator has RngM states; the histories tried have HistLen
\* points (or one fewer than the minimum); a call simulates up to
\* MaxSimulations paths of up to MaxForecastDays days.
RngM == 16
HistLen == 20
MaxForecastDays == 2
MaxSimulations == 2

\* A seeding that leaves the generator where it is.
np_random_seed_noop(state, seed) == state

\* np.random.seed(seed): the state becomes a function of the seed alone.
np_random_seed(state, seed) == seed % RngM

\* One step of the generator.
RngNext(state) == (5 * state + 3) % RngM

\* The standard normal variate read off a state (-1, 0 or 1).
Gauss(state) == (state % 3) - 1

RECURSIVE RngAfter(_, _)
RngAfter(state, draws) == IF draws = 0 THEN state ELSE RngAfter(RngNext(state), draws - 1)

\* np.log of a power of two, in units of ln 2.
RECURSIVE Log2(_)
Log2(p) == IF p <= 1 THEN 0 ELSE 1 + Log2(p \div 2)

\* The prices kept: `if price and price > 0`.
RECURSIVE forecast_prices(_)
forecast_prices(data) ==
    IF data = << >> THEN << >>
    ELSE (IF Truthy(Head(data).Close) /\ Head(data).Close > 0
          THEN <<Head(data).Close>> ELSE << >>) \o forecast_prices(Tail(data))

\* log_returns = np.diff(np.log(prices))
log_returns(ps) == [i \in 1..(Len(ps) - 1) |-> Log2(ps[i + 1]) - Log2(ps[i])]

RECURSIVE SumSeq(_)
SumSeq(q) == IF q = << >> THEN 0 ELSE Head(q) + SumSeq(Tail(q))

\* np.mean and the square of np.std (population variance).
daily_mean(r) == Rat(SumSeq(r), Len(r))
daily_var(r) ==
    Rat(Len(r) * SumSeq([i \in 1..Len(r) |-> r[i] * r[i]]) - SumSeq(r) * SumSeq(r),
        Len(r) * Len(r))

\* random_walks, cumulated: row i, day k is the sum of the variates number
\* (i-1)*days + 1 .. (i-1)*days + k of the stream that starts in `seeded`
\* (np.random.normal fills the (num_simulations, forecast_days) array row by
\* row), and day 0 is the starting price itself.
RECURSIVE CumZ(_, _, _)
CumZ(seeded, first, k) ==
    IF k = 0 THEN 0
    ELSE CumZ(seeded, first, k - 1) + Gauss(RngAfter(seeded, first + k))

price_paths(seeded, sims, days) ==
    [i \in 1..sims |-> [k \in 0..days |-> CumZ(seeded, (i - 1) * days, k)]]

\* An exception that leaves the function: nothing is returned, so no error
\* record either.
Raised(exc) == [error |-> FALSE, raised |-> exc]
Raises(result) == "raised" \in DOMAIN result

\* The result of run_gbm_forecast on a fetched history, with the generator in
\* state `state` when the call starts.  With no simulation the per-day
\* statistics take np.min of an empty column, which raises ValueError.
run_gbm_forecast(h, days, sims, state) ==
    IF h.error \/ h.data = << >> THEN [error |-> TRUE]
    ELSE LET ps == forecast_prices(h.data)
         IN  IF Len(ps) < MinForecastPoints THEN [error |-> TRUE]
             ELSE IF sims = 0 THEN Raised("ValueError")
             ELSE LET r == log_returns(ps)
                      paths == price_paths(np_random_seed(state, GBM_SEED), sims, days)
                  IN  [error |-> FALSE,
                       current_price |-> ps[Len(ps)],
                       daily_mean |-> daily_mean(r),
                       daily_var |-> daily_var(r),
                       price_paths |-> paths,
                       final_prices |-> [i \in 1..sims |-> paths[i][days]]]

\* The generator state a call with the given result leaves behind: untouched
\* when the call returned an error before seeding, else the seeded stream
\* advanced by all draws.
rng_after_forecast(result, days, sims, state) ==
    IF result.error THEN state
    ELSE RngAfter(np_random_seed(state, GBM_SEED), sims * days)

\* The histories tried: a failed fetch; flat, zigzag and staircase price
\* series of HistLen points; and a series of the minimal length whose first
\* price is 0, which leaves one positive price fewer than the minimum.
ForecastShapes == {"flat", "zigzag", "stairs"}

RECURSIVE Pow2(_)
Pow2(e) == IF e = 0 THEN 1 ELSE 2 * Pow2(e - 1)

ShapePrice(shape, i) ==
    IF shape = "flat" THEN 4
    ELSE IF shape = "zigzag" THEN Pow2(i % 2)
    ELSE Pow2(i \div 5)

ForecastHistories ==
    {[error |-> TRUE, data |-> << >>]}
    \cup {[error |-> FALSE,
           data |-> [i \in 1..HistLen |-> [Date |-> i, Close |-> ShapePrice(shape, i)]]] :
             shape \in ForecastShapes}
    \cup {[error |-> FALSE,
           data |-> [i \in 1..MinForecastPoints |->
                        [Date |-> i, Close |-> IF i = 1 THEN 0 ELSE ShapePrice("zigzag", i)]]]}

ForecastInputs ==
    [hist : ForecastHistories, forecast_days : 0..MaxForecastDays,
     num_simulations : 0..MaxSimulations]

\* At start-up the generator is seeded from the operating system.
InitForecast ==
    /\ pc = "call"
    /\ rng_state \in 0..(RngM - 1)
    /\ ref_call = [made |-> FALSE]
    /\ last_call = [made |-> FALSE]
    /\ IdleTrend /\ IdleAlign /\ IdleInvest /\ IdleLater

CallResult(in) ==
    run_gbm_forecast(in.hist, in.forecast_days, in.num_simulations, rng_state)

\* The first forecast call, remembered for comparison with later ones; the
\* generator is then in any state that earlier draws may have left.
ForecastRemembered ==
    \E in \in ForecastInputs :
        LET result == CallResult(in)
        IN  /\ ~ref_call.made
            /\ ref_call' = [made |-> TRUE, input |-> in, result |-> result]
            /\ last_call' = [made |-> TRUE, input |-> in, result |-> result,
                             other_between |-> FALSE]
            /\ rng_state' = rng_after_forecast(result, in.forecast_days,
                                               in.num_simulations, rng_state)
            /\ UNCHANGED <<pc, trendVars, alignVars, investVars, laterVars>>

\* Any later forecast call; other_between records that a call with other
\* parameters ran since the remembered one.
Forecast ==
    \E in \in ForecastInputs :
        LET result == CallResult(in)
        IN  /\ ref_call.made
            /\ last_call' = [made |-> TRUE, input |-> in, result |-> result,
                             other_between |->
                                last_call.other_between \/ in # ref_call.input]
            /\ rng_state' = rng_after_forecast(result, in.forecast_days,
                                               in.num_simulations, rng_state)
            /\ UNCHANGED <<pc, ref_call, trendVars, alignVars, investVars, laterVars>>

NextForecast == ForecastRemembered \/ Forecast

SpecForecast == InitForecast /\ [][NextForecast]_vars

\* C10: a forecast call with the parameters of an earlier call returns the
\* paths and statistics of that earlier call, whatever calls ran before or
\* between them.
C10_SameInputsSameForecast ==
    ref_call.made /\ last_call.input = ref_call.input =>
        last_call.result = ref_call.result

\* A successful call repeats the remembered call after a call with other
\* parameters, the generator having been left elsewhere than the seed.
C10_Witness ==
    /\ ref_call.made
    /\ last_call.input = ref_call.input
    /\ last_call.other_between
    /\ ~last_call.result.error
    /\ last_call.input.num_simulations = MaxSimulations
    /\ last_call.input.forecast_days = MaxForecastDays
    /\ \E i \in 1..MaxSimulations : \E j \in 1..MaxSimulations :
          last_call.result.price_paths[i] # last_call.result.price_paths[j]

\* C14: no forecast call raises: every call returns a report or a record
\* with an error field.
C14_ForecastNeverRaises ==
    last_call.made => ~Raises(last_call.result)

EnoughHistory(h) == ~h.error /\ Len(forecast_prices(h.data)) >= MinForecastPoints

\* C15: a forecast call returns the bare error record when the fetch failed
\* or fewer than 20 positive prices are available, and a report without an
\* error field otherwise.
C15_ForecastErrorOrReport ==
    last_call.made =>
        IF EnoughHistory(last_call.input.hist)
        THEN ~last_call.result.error /\ ~Raises(last_call.result)
        ELSE last_call.result = [error |-> TRUE]

(***************************************************************************)
(* run_gbm_forecast, statistics part (forecast.py, after price_paths)      *)
(*                                                                         *)
(* The figures reported are functions of forecast_days, of the terminal    *)
(* prices price_paths[:, -1] and of current_price.  A simulation can end   *)
(* at any positive price, so the terminal prices are drawn from a set of   *)
(* positive integers, in any order; the figures are exact rationals.       *)
(***************************************************************************)
RLe(a, b) == a[1] * b[2] <= b[1] * a[2]

\* The sorted copy of a sequence of rationals.
RECURSIVE InsertRat(_, _)
InsertRat(s, x) ==
    IF s = << >> THEN <<x>>
    ELSE IF RLe(x, Head(s)) THEN <<x>> \o s
    ELSE <<Head(s)>> \o InsertRat(Tail(s), x)

RECURSIVE SortRat(_)
SortRat(s) == IF s = << >> THEN << >> ELSE InsertRat(SortRat(Tail(s)), Head(s))

\* The value at the virtual index q/100 * (n-1) of a sequence taken as it is.
Interpolate(a, q) ==
    LET n == Len(a)
        lo == (q * (n - 1)) \div 100
        g == Rat((q * (n - 1)) % 100, 100)
        hi == IF lo + 1 < n THEN lo + 1 ELSE lo
    IN  RAdd(a[lo + 1], RMul(g, RSub(a[hi + 1], a[lo + 1])))

\* A percentile read off the array in the order of the simulations.
np_percentile_unsorted(a, q) == Interpolate(a, q)

\* np.percentile(a, q), linear interpolation between order statistics.
np_percentile(a, q) == Interpolate(SortRat(a), q)

\* final_returns = (final_prices / current_price - 1) * 100
final_returns(fp, cp) == [i \in 1..Len(fp) |-> Rat((fp[i] - cp) * 100, cp)]

\* The fixed horizons and the key pairs f"{horizon}d_var_95", f"{horizon}d_var_99"
\* that var_horizons holds: a horizon is reported when `horizon < forecast_days`.
Horizons == {21, 63, 126, 252}

var_horizons(days) ==
    {<<h, k>> : h \in {x \in Horizons : x < days}, k \in {"d_var_95", "d_var_99"}}

scenario(fp, fr, q) ==
    [final_price |-> np_percentile([i \in 1..Len(fp) |-> RInt(fp[i])], q),
     return_pct |-> np_percentile(fr, q)]

scenarios(fp, fr) ==
    [base_case |-> scenario(fp, fr, 50),
     bull_case |-> scenario(fp, fr, 90),
     bear_case |-> scenario(fp, fr, 10),
     extreme_bull |-> scenario(fp, fr, 99),
     extreme_bear |-> scenario(fp, fr, 1)]

\* The edges of the return buckets.
BucketEdges == <<-50, -25, -10, 0, 10, 25, 50, 100>>
NumBuckets == Len(BucketEdges) + 1

\* Buckets that leave their lower edge out.
in_bucket_open(r, k) ==
    /\ k > 1 => RLt(RInt(BucketEdges[k - 1]), r)
    /\ k < NumBuckets => RLt(r, RInt(BucketEdges[k]))

\* The test of bucket k: `final_returns < -50`, `(final_returns >= lo) &
\* (final_returns < hi)`, `final_returns >= 100`.
in_bucket(r, k) ==
    /\ k > 1 => RLe(RInt(BucketEdges[k - 1]), r)
    /\ k < NumBuckets => RLt(r, RInt(BucketEdges[k]))

\* np.mean(mask) * 100 for each bucket.
return_buckets(fr) ==
    [k \in 1..NumBuckets |->
        Rat(100 * Cardinality({i \in 1..Len(fr) : in_bucket(fr[i], k)}), Len(fr))]

risk_statistics(days, fp, cp) ==
    LET fr == final_returns(fp, cp)
    IN  [var_95 |-> np_percentile(fr, 5),
         var_99 |-> np_percentile(fr, 1),
         var_horizons |-> var_horizons(days),
         scenarios |-> scenarios(fp, fr),
         buckets |-> return_buckets(fr)]

\* Bound: the number of simulations whose terminal prices are drawn.
MaxTerminalPaths == 3
TerminalPrices == {2, 3, 4, 5, 6, 8, 9, 11}
StartPrices == {4, 10}
ForecastDayChoices == {h + d : h \in Horizons, d \in {-1, 0, 1}}

InitRisk ==
    /\ pc = "call"
    /\ forecast_days \in ForecastDayChoices
    /\ final_prices \in UNION {[1..n -> TerminalPrices] : n \in 1..MaxTerminalPaths}
    /\ current_price \in StartPrices
    /\ risk_report = None
    /\ IdleCore /\ IdleCache /\ IdleAnalysis /\ IdleBeta /\ IdleSeries

RiskStatistics ==
    /\ pc = "call"
    /\ risk_report' = risk_statistics(forecast_days, final_prices, current_price)
    /\ pc' = "done"
    /\ UNCHANGED <<forecast_days, final_prices, current_price, coreVars, cacheVars,
                   analysisVars, betaVars, seriesVars>>

NextRisk == RiskStatistics

SpecRisk == InitRisk /\ [][NextRisk]_vars

\* C11: both VaR figures of a fixed horizon are reported exactly when the
\* horizon is not beyond forecast_days (h <= forecast_days).
C11_HorizonsUpToForecastDays ==
    pc = "done" =>
        \A h \in Horizons : \A k \in {"d_var_95", "d_var_99"} :
            (h <= forecast_days) <=> (<<h, k>> \in risk_report.var_horizons)

\* C12: the terminal prices of the five scenarios are ordered, extreme bear
\* <= bear <= base <= bull <= extreme bull, and so are their returns.
C12_ScenarioOrdering ==
    pc = "done" =>
        LET sc == risk_report.scenarios
            order == <<sc.extreme_bear, sc.bear_case, sc.base_case, sc.bull_case,
                       sc.extreme_bull>>
        IN  \A i \in 1..(Len(order) - 1) :
                /\ RLe(order[i].final_price, order[i + 1].final_price)
                /\ RLe(order[i].return_pct, order[i + 1].return_pct)

\* The simulations end in descending order at distinct prices, and the
\* scenarios are told apart.
C12_Witness ==
    /\ pc = "done"
    /\ Len(final_prices) = MaxTerminalPaths
    /\ \A i \in 1..(Len(final_prices) - 1) : final_prices[i] > final_prices[i + 1]
    /\ RLt(risk_report.scenarios.bear_case.final_price,
           risk_report.scenarios.bull_case.final_price)

\* C13: every terminal return lies in exactly one of the nine buckets, each
\* bucket reports the share of the returns that lie in it, and the shares
\* sum to 100.
BucketOf(r) ==
    {k \in 1..9 :
        /\ k > 1 => RLe(RInt(BucketEdges[k - 1]), r)
        /\ k < 9 => RLt(r, RInt(BucketEdges[k]))}

RECURSIVE RSum(_)
RSum(q) == IF q = << >> THEN RInt(0) ELSE RAdd(Head(q), RSum(Tail(q)))

C13_BucketsPartitionReturns ==
    pc = "done" =>
        LET fr == final_returns(final_prices, current_price)
        IN  /\ Len(risk_report.buckets) = 9
            /\ \A i \in 1..Len(fr) : Cardinality(BucketOf(fr[i])) = 1
            /\ \A k \in 1..9 :
                  risk_report.buckets[k] =
                      Rat(100 * Cardinality({i \in 1..Len(fr) : BucketOf(fr[i]) = {k}}),
                          Len(fr))
            /\ RSum(risk_report.buckets) = RInt(100)

\* Every terminal return sits on a bucket edge, on more than one of them.
C13_Witness ==
    /\ pc = "done"
    /\ LET fr == final_returns(final_prices, current_price)
       IN  /\ \A i \in 1..Len(fr) : \E k \in 1..Len(BucketEdges) : fr[i] = RInt(BucketEdges[k])
           /\ \E i \in 1..Len(fr) : \E j \in 1..Len(fr) : fr[i] # fr[j]

(***************************************************************************)
(* get_cache / set_cache (base.py)                                         *)
(*                                                                         *)
(* The clock counts whole seconds.  An optional value is << >> for None    *)
(* and <<v>> for v.                                                        *)
(***************************************************************************)
CACHE_TTL == 300
SecondsPerDay == 86400

\* (a - b).seconds of two datetimes: the seconds field of the timedelta,
\* which leaves out its days.
timedelta_seconds(a, b) == (a - b) % SecondsPerDay

\* get_cache(key) at time t.
get_cache(cache, key, t) ==
    IF key \in DOMAIN cache /\ timedelta_seconds(t, cache[key].ts) < CACHE_TTL
    THEN <<cache[key].data>>
    ELSE << >>

\* set_cache(key, data) at time t.
set_cache(cache, key, data, t) ==
    [k \in DOMAIN cache \cup {key} |->
        IF k = key THEN [data |-> data, ts |-> t] ELSE cache[k]]

EmptyCache == [k \in {} |-> 0]

\* Bound: the number of whole days the clock runs.  The clock stops at the
\* instants around the multiples of a day and of the lifetime of an entry.
MaxDays == 1
Instants ==
    {d * SecondsPerDay + b :
        d \in 0..MaxDays, b \in {0, 1, CACHE_TTL - 1, CACHE_TTL, CACHE_TTL + 1}}

CacheKeys == {"k1", "k2"}
CacheValues == {"v1", "v2"}

InitCache ==
    /\ pc = "call"
    /\ CACHE = EmptyCache
    /\ clock = 0
    /\ last_lookup = [made |-> FALSE]
    /\ IdleCore /\ IdleRisk /\ IdleAnalysis /\ IdleBeta /\ IdleSeries

\* Time passes.
Tick ==
    /\ \E t \in Instants : t > clock /\ clock' = t
    /\ UNCHANGED <<pc, CACHE, last_lookup, coreVars, riskVars, analysisVars, betaVars, seriesVars>>

\* set_cache(key, v); the lookup remembered is the latest since the last
\* set_cache.
SetCache ==
    \E key \in CacheKeys : \E v \in CacheValues :
        /\ CACHE' = set_cache(CACHE, key, v, clock)
        /\ last_lookup' = [made |-> FALSE]
        /\ UNCHANGED <<pc, clock, coreVars, riskVars, analysisVars, betaVars, seriesVars>>

\* get_cache(key)
GetCache ==
    \E key \in CacheKeys :
        /\ last_lookup' = [made |-> TRUE, key |-> key, at |-> clock,
                           returned |-> get_cache(CACHE, key, clock)]
        /\ UNCHANGED <<pc, CACHE, clock, coreVars, riskVars, analysisVars, betaVars, seriesVars>>

NextCache == Tick \/ SetCache \/ GetCache

SpecCache == InitCache /\ [][NextCache]_vars

\* C19: a lookup returns the value set for the key when less than CACHE_TTL
\* seconds have passed since the latest set_cache of that key, and None at
\* every later time and for a key never set.
C19_CacheExpires ==
    last_lookup.made =>
        LET k == last_lookup.key
        IN  IF k \in DOMAIN CACHE /\ last_lookup.at - CACHE[k].ts < CACHE_TTL
            THEN last_lookup.returned = <<CACHE[k].data>>
            ELSE last_lookup.returned = << >>

(***************************************************************************)
(* calculate_beta, calculate_alpha (analysis.py)                           *)
(*                                                                         *)
(* Returns are integers (log returns in units of ln 2 when they come from  *)
(* prices that are powers of two); beta is an exact rational.              *)
(***************************************************************************)
\* A pairing that keeps every pair.
valid_pairs_all(a, m) == [i \in 1..Len(a) |-> <<a[i], m[i]>>]

\* The pairs kept: `if a != 0 or m != 0`.
RECURSIVE valid_pairs(_, _)
valid_pairs(a, m) ==
    IF a = << >> THEN << >>
    ELSE (IF Head(a) # 0 \/ Head(m) # 0 THEN <<<<Head(a), Head(m)>>>> ELSE << >>)
         \o valid_pairs(Tail(a), Tail(m))

\* n * sum(x*y) - sum(x) * sum(y) over the pairs, x and y being the
\* components i and j of a pair.
CrossSum(ps, i, j) ==
    Len(ps) * SumSeq([k \in 1..Len(ps) |-> ps[k][i] * ps[k][j]])
    - SumSeq([k \in 1..Len(ps) |-> ps[k][i]]) * SumSeq([k \in 1..Len(ps) |-> ps[k][j]])

\* np.cov(a, m)[0, 1]: the sample covariance, divisor n - 1.
np_cov(ps) == Rat(CrossSum(ps, 1, 2), Len(ps) * (Len(ps) - 1))

\* np.var(m): the population variance, divisor n.
np_var(ps) == Rat(CrossSum(ps, 2, 2), Len(ps) * Len(ps))

calculate_beta(a, m) ==
    IF Len(a) # Len(m) \/ Len(a) < 2 THEN RInt(1)
    ELSE LET ps == valid_pairs(a, m)
         IN  IF Len(ps) < 2 THEN RInt(1)
             ELSE IF np_var(ps) = RInt(0) THEN RInt(1)
             ELSE RDiv(np_cov(ps), np_var(ps))

\* calculate_alpha with risk_free_rate 0: mean(asset) * 252 - beta *
\* mean(market) * 252.  The mean of an empty market series is nan, and a nan
\* alpha is returned as 0.0.
calculate_alpha(a, m) ==
    IF Len(a) < 2 THEN RInt(0)
    ELSE IF Len(m) = 0 THEN RInt(0)
    ELSE RSub(Rat(SumSeq(a) * 252, Len(a)),
              RMul(calculate_beta(a, m), Rat(SumSeq(m) * 252, Len(m))))

\* A correlation r is kept as its sign and its square: np.corrcoef gives
\* cov / sqrt(var1 * var2), whose square is rational.
Corr(sign, square) == [sign |-> sign, square |-> square]
CorrZero == Corr(0, RInt(0))
CorrOne == Corr(1, RInt(1))

Sign(x) == IF x > 0 THEN 1 ELSE IF x < 0 THEN -1 ELSE 0

\* calculate_correlation: 0.0 for series of different lengths, for fewer than
\* two pairs kept, and where np.corrcoef is nan (a constant series).
calculate_correlation(returns1, returns2) ==
    IF Len(returns1) # Len(returns2) \/ Len(returns1) < 2 THEN CorrZero
    ELSE LET ps == valid_pairs(returns1, returns2)
             c == CrossSum(ps, 1, 2)
             v1 == CrossSum(ps, 1, 1)
             v2 == CrossSum(ps, 2, 2)
         IN  IF Len(ps) < 2 THEN CorrZero
             ELSE IF v1 = 0 \/ v2 = 0 THEN CorrZero
             ELSE Corr(Sign(c), Rat(c * c, v1 * v2))

\* Bound: the length of the return series tried.
MaxReturns == 3
ReturnValues == {-1, 0, 1, 2}
ReturnSeries == UNION {[1..n -> ReturnValues] : n \in 0..MaxReturns}

InitBeta ==
    /\ pc = "call"
    /\ asset_returns \in ReturnSeries
    /\ market_returns \in ReturnSeries
    /\ beta = None
    /\ alpha = << >>
    /\ correlation = << >>
    /\ IdleCore /\ IdleRisk /\ IdleCache /\ IdleAnalysis /\ IdleSeries

CalculateBeta ==
    /\ pc = "call"
    /\ beta' = calculate_beta(asset_returns, market_returns)
    /\ pc' = "done"
    /\ UNCHANGED <<asset_returns, market_returns, alpha, correlation, coreVars,
                   riskVars, cacheVars, analysisVars, seriesVars>>

CalculateAlpha ==
    /\ alpha = << >>
    /\ alpha' = <<calculate_alpha(asset_returns, market_returns)>>
    /\ UNCHANGED <<pc, asset_returns, market_returns, beta, correlation, coreVars,
                   riskVars, cacheVars, analysisVars, seriesVars>>

CalculateCorrelation ==
    /\ correlation = << >>
    /\ correlation' = <<calculate_correlation(asset_returns, market_returns)>>
    /\ UNCHANGED <<pc, asset_returns, market_returns, beta, alpha, coreVars,
                   riskVars, cacheVars, analysisVars, seriesVars>>

NextBeta == CalculateBeta \/ CalculateAlpha \/ CalculateCorrelation

SpecBeta == InitBeta /\ [][NextBeta]_vars

\* A series is non-degenerate when its non-zero returns are at least two and
\* not all equal.
NonDegenerate(x) ==
    \E i \in 1..Len(x) : \E j \in 1..Len(x) : x[i] # 0 /\ x[j] # 0 /\ x[i] # x[j]

\* C20: the beta of a non-degenerate series of at least two returns against
\* itself is 1.
C20_BetaOfSelfIsOne ==
    pc = "done" /\ asset_returns = market_returns /\ Len(asset_returns) >= 2
                /\ NonDegenerate(asset_returns) =>
        beta = RInt(1)

\* C21: alpha is 0.0 on every degenerate input: fewer than two asset
\* returns, or asset and market series of different lengths.
C21_AlphaZeroOnDegenerate ==
    alpha # << >> /\ (Len(asset_returns) < 2 \/ Len(asset_returns) # Len(market_returns)) =>
        alpha = <<RInt(0)>>

\* The positions of the pairs that are not both zero.
KeptPairs == {i \in 1..Len(asset_returns) : asset_returns[i] # 0 \/ market_returns[i] # 0}

\* C22: beta is 1.0 on every degenerate input: series of different lengths,
\* fewer than two points, fewer than two pairs that are not both zero, or a
\* market that does not vary over the pairs kept.
C22_BetaNeutralOnDegenerate ==
    /\ pc = "done"
    /\ \/ Len(asset_returns) # Len(market_returns)
       \/ Len(asset_returns) < 2
       \/ Cardinality(KeptPairs) < 2
       \/ \A i \in KeptPairs : \A j \in KeptPairs : market_returns[i] = market_returns[j]
    => beta = RInt(1)

\* Beta was asked for series of equal length of which one pair only is not
\* both zero, the asset differing from the market there.
C22_Witness ==
    /\ pc = "done"
    /\ Len(asset_returns) = Len(market_returns)
    /\ Len(asset_returns) >= 2
    /\ Cardinality(KeptPairs) = 1
    /\ \E i \in KeptPairs : asset_returns[i] # market_returns[i] /\ market_returns[i] # 0
    /\ beta = RInt(1)

\* C23: the correlation of a series of at least two points with itself is
\* 1.0 unless the series is zero throughout.
C23_CorrelationOfSelfIsOne ==
    /\ correlation # << >>
    /\ asset_returns = market_returns
    /\ Len(asset_returns) >= 2
    /\ \E i \in 1..Len(asset_returns) : asset_returns[i] # 0
    => correlation = <<CorrOne>>

(***************************************************************************)
(* analyze_assets (analysis.py)                                            *)
(*                                                                         *)
(* Prices are powers of two, so that log returns are integers in units of  *)
(* ln 2.  The report keeps the fields the properties below read: period,   *)
(* dates, tickers, aligned prices, and the beta and alpha of each ticker's *)
(* statistics (alpha in units of ln 2).                                    *)
(***************************************************************************)
\* Returns that leave out the steps without two positive prices.
calculate_returns_skip(ps) ==
    LET steps == SelectSeq([i \in 1..(Len(ps) - 1) |-> i],
                           LAMBDA i : ps[i] > 0 /\ ps[i + 1] > 0)
    IN  [k \in 1..Len(steps) |-> Log2(ps[steps[k] + 1]) - Log2(ps[steps[k]])]

\* calculate_returns: the log return of each step, 0.0 where either price is
\* missing or not positive.
calculate_returns(ps) ==
    [i \in 1..(Len(ps) - 1) |->
        IF Truthy(ps[i + 1]) /\ Truthy(ps[i]) /\ ps[i] > 0 /\ ps[i + 1] > 0
        THEN Log2(ps[i + 1]) - Log2(ps[i]) ELSE 0]

\* benchmark_returns = None; an empty list is as falsy as None.
NoBenchmark == << >>

\* calculate_statistics: {} without a positive price, else the statistics,
\* with beta 1.0 and alpha 0.0 unless a benchmark of the same length is given
\* and there are at least two returns.
calculate_statistics(ps, returns, benchmark_returns) ==
    LET valid_prices == SelectSeq(ps, LAMBDA x : x # None /\ x > 0)
        with_benchmark ==
            /\ Len(returns) > 1
            /\ benchmark_returns # << >>
            /\ Len(benchmark_returns) = Len(returns)
    IN  IF valid_prices = << >> THEN [empty |-> TRUE]
        ELSE [empty |-> FALSE,
              current_price |-> valid_prices[Len(valid_prices)],
              start_price |-> valid_prices[1],
              beta |-> IF with_benchmark THEN calculate_beta(returns, benchmark_returns)
                       ELSE RInt(1),
              alpha |-> IF with_benchmark
                        THEN RMul(calculate_alpha(returns, benchmark_returns), RInt(100))
                        ELSE RInt(0)]

\* a['type'] + ':' + a['ticker']
asset_key(a) == <<a.type, a.ticker>>

\* f"analysis:{'-'.join(asset_keys)}:{period}:v2": the keys in the order of
\* the request.
analysis_cache_key(assets, period) ==
    <<[i \in 1..Len(assets) |-> asset_key(assets[i])], period>>

\* histories: the fetched histories that have data, in the order of the
\* request.
histories_with_data(fetch) == SelectSeq(fetch, LAMBDA h : h.data # << >>)

\* A test that is content with a single history.
enough_histories_one(histories) == Len(histories) >= 1

\* `len(histories) < 2` is the error case.
enough_histories(histories) == Len(histories) >= 2

\* list(aligned.keys()): the tickers of the histories in the order in which
\* they first occur, a ticker that occurs again keeping its place.
ticker_order(histories) ==
    LET first_at == SelectSeq([i \in 1..Len(histories) |-> i],
                              LAMBDA i : \A j \in 1..(i - 1) :
                                            histories[j].ticker # histories[i].ticker)
    IN  [k \in 1..Len(first_at) |-> histories[first_at[k]].ticker]

\* A matrix whose lower triangle is left at its initial 0.0.
matrix_entry_upper(tickers, returns_data, i, j) ==
    IF i = j THEN CorrOne
    ELSE IF i < j
         THEN calculate_correlation(returns_data[tickers[i]], returns_data[tickers[j]])
         ELSE CorrZero

\* correlation_matrix[i][j]: 1.0 on the diagonal; the correlation computed for
\* the pair with the smaller index first is written to both [i][j] and [j][i].
matrix_entry(tickers, returns_data, i, j) ==
    IF i = j THEN CorrOne
    ELSE IF i < j
         THEN calculate_correlation(returns_data[tickers[i]], returns_data[tickers[j]])
         ELSE calculate_correlation(returns_data[tickers[j]], returns_data[tickers[i]])

correlation_matrix(tickers, returns_data) ==
    [i \in 1..Len(tickers) |->
        [j \in 1..Len(tickers) |-> matrix_entry(tickers, returns_data, i, j)]]

\* The part of analyze_assets after the fetches.
analysis_report(assets, period, histories) ==
    IF ~enough_histories(histories) THEN [error |-> TRUE]
    ELSE LET al == align_timeseries(histories)
             first_ticker == histories[1].ticker
             benchmark_returns ==
                 IF assets[1].type = "index" /\ first_ticker \in DOMAIN al.columns
                 THEN calculate_returns(al.columns[first_ticker])
                 ELSE NoBenchmark
         IN  IF al.dates = << >> THEN [error |-> TRUE]
             ELSE [error |-> FALSE,
                   period |-> period,
                   data_points |-> Len(al.dates),
                   tickers |-> DOMAIN al.columns,
                   dates |-> al.dates,
                   statistics |->
                       [t \in DOMAIN al.columns |->
                           calculate_statistics(al.columns[t],
                                                calculate_returns(al.columns[t]),
                                                benchmark_returns)],
                   correlation_matrix |->
                       correlation_matrix(ticker_order(histories),
                                          [t \in DOMAIN al.columns |->
                                              calculate_returns(al.columns[t])]),
                   correlation_labels |-> ticker_order(histories),
                   aligned_prices |-> al.columns]

\* analyze_assets at time t, the fetches answering as `fetch` says: the
\* result, whether the histories were fetched, and the cache afterwards.
analyze_assets(assets, period, fetch, cache, t) ==
    IF Len(assets) < 2
    THEN [result |-> [error |-> TRUE], fetched |-> FALSE, cache |-> cache]
    ELSE LET cache_key == analysis_cache_key(assets, period)
             cached == get_cache(cache, cache_key, t)
             result == analysis_report(assets, period, histories_with_data(fetch))
         IN  IF cached # << >>
             THEN [result |-> cached[1], fetched |-> FALSE, cache |-> cache]
             ELSE [result |-> result, fetched |-> TRUE,
                   cache |-> IF result.error THEN cache
                             ELSE set_cache(cache, cache_key, result, t)]

\* The assets requested: an index and three stocks, of which "a" is the stock
\* "A" written in lower case, in lists of one to MaxAssets different assets.
AnalysisAssets ==
    {[type |-> "index", ticker |-> "I"], [type |-> "stock", ticker |-> "A"],
     [type |-> "stock", ticker |-> "a"], [type |-> "stock", ticker |-> "B"]}

\* Bound: the number of assets in a request.
MaxAssets == 3

AnalysisRequests ==
    {r \in UNION {[1..n -> AnalysisAssets] : n \in 1..MaxAssets} :
        \A i \in 1..Len(r) : \A j \in 1..Len(r) : r[i] = r[j] => i = j}

Periods == {"1y"}

\* StockFetcher.resolve, IndexFetcher.resolve for a query that is no company
\* or index name: query.upper().
resolve(asset) == IF asset.ticker = "a" THEN "A" ELSE asset.ticker

\* What a fetch of an asset can answer: the price history of the ticker it
\* resolves to, and either an error (the assets "I" and "A") or data without
\* a usable price, a close of 0.0 (the assets "B" and "a").
AssetPrices(ticker) ==
    IF ticker = "I" THEN <<1, 2, 1>>
    ELSE IF ticker = "A" THEN <<1, 4, 4>>
    ELSE <<None, 2, 8>>

AssetHistory(ticker) ==
    LET ps == AssetPrices(ticker)
    IN  [error |-> FALSE, ticker |-> ticker,
         data |-> SelectSeq([d \in 1..Len(ps) |-> [Date |-> d, Close |-> ps[d], price |-> None]],
                            LAMBDA point : point.Close # None)]

FetchAnswers(asset) ==
    {AssetHistory(resolve(asset)),
     IF asset.ticker \in {"I", "A"}
     THEN [error |-> TRUE, ticker |-> resolve(asset), data |-> << >>]
     ELSE [error |-> FALSE, ticker |-> resolve(asset),
           data |-> <<[Date |-> 1, Close |-> 0, price |-> None]>>]}

RECURSIVE FetchChoices(_)
FetchChoices(assets) ==
    IF assets = << >> THEN {<< >>}
    ELSE {<<h>> \o rest : h \in FetchAnswers(Head(assets)),
                          rest \in FetchChoices(Tail(assets))}

\* Bounds: the number of analyze_assets calls, and the number of cache
\* lifetimes that may pass between them.
MaxAnalysisCalls == 2
MaxLifetimes == 1

InitAnalysis ==
    /\ pc = "call"
    /\ CACHE = EmptyCache
    /\ clock = 0
    /\ last_lookup = [made |-> FALSE]
    /\ last_analysis = [made |-> FALSE]
    /\ analysis_calls = 0
    /\ IdleCore /\ IdleRisk /\ IdleBeta /\ IdleSeries

\* The lifetime of a cache entry passes.
LifetimePasses ==
    /\ clock < MaxLifetimes * CACHE_TTL
    /\ clock' = clock + CACHE_TTL
    /\ UNCHANGED <<pc, CACHE, last_lookup, analysisVars, coreVars, riskVars, betaVars, seriesVars>>

AnalyzeAssets ==
    \E assets \in AnalysisRequests : \E period \in Periods :
      \E fetch \in FetchChoices(assets) :
        LET out == analyze_assets(assets, period, fetch, CACHE, clock)
        IN  /\ analysis_calls < MaxAnalysisCalls
            /\ analysis_calls' = analysis_calls + 1
            /\ last_analysis' =
                  [made |-> TRUE, assets |-> assets, period |-> period, at |-> clock,
                   fetched |-> out.fetched,
                   fetch |-> IF out.fetched THEN fetch ELSE << >>,
                   result |-> out.result]
            /\ CACHE' = out.cache
            /\ UNCHANGED <<pc, clock, last_lookup, coreVars, riskVars, betaVars, seriesVars>>

NextAnalysis == LifetimePasses \/ AnalyzeAssets

SpecAnalysis == InitAnalysis /\ [][NextAnalysis]_vars

\* C16: a call that fetches returns an error record exactly when fewer than
\* two of the requested assets yield data or no yielded point has both a date
\* and a price; a call answered from the cache returns the cached report.
Yielded == histories_with_data(last_analysis.fetch)

C16_ErrorIffTooFewHistories ==
    last_analysis.made =>
        IF last_analysis.fetched
        THEN last_analysis.result.error <=>
                (Len(Yielded) < 2 \/ all_dates(Yielded) = {})
        ELSE last_analysis.result.error <=> Len(last_analysis.assets) < 2

\* Three assets are requested, one fetch fails, and the report covers the
\* two others.
C16_Witness ==
    /\ last_analysis.made /\ last_analysis.fetched
    /\ Len(last_analysis.assets) = 3
    /\ \E i \in 1..3 : last_analysis.fetch[i].error
    /\ ~last_analysis.result.error
    /\ Cardinality(last_analysis.result.tickers) = 2

\* C17: beta and alpha are computed against a benchmark only when the first
\* requested asset is an index, and then against the returns of that asset;
\* otherwise every ticker keeps beta 1.0 and alpha 0.0.
C17_BenchmarkIsFirstRequestedIndex ==
    last_analysis.made /\ last_analysis.fetched /\ ~last_analysis.result.error =>
        LET r == last_analysis.result
            first == last_analysis.assets[1]
            own == first.type = "index" /\ first.ticker \in r.tickers
                   /\ ~last_analysis.fetch[1].error
            market == IF own THEN calculate_returns(r.aligned_prices[first.ticker])
                      ELSE NoBenchmark
        IN  \A t \in r.tickers :
                r.statistics[t] =
                    calculate_statistics(r.aligned_prices[t],
                                         calculate_returns(r.aligned_prices[t]), market)

SamePairs(a, b) ==
    Len(a) = Len(b) /\ {a[i] : i \in 1..Len(a)} = {b[i] : i \in 1..Len(b)}

\* C18: a call for the assets and the period of a report that is cached and
\* younger than CACHE_TTL, the assets listed in another order, is answered
\* with that report and fetches nothing.
C18_CacheKeyIgnoresOrder ==
    last_analysis.made /\ Len(last_analysis.assets) >= 2 =>
        \A k \in DOMAIN CACHE :
            /\ k # analysis_cache_key(last_analysis.assets, last_analysis.period)
            /\ k[2] = last_analysis.period
            /\ SamePairs(k[1], analysis_cache_key(last_analysis.assets,
                                                  last_analysis.period)[1])
            /\ last_analysis.at - CACHE[k].ts < CACHE_TTL
            => ~last_analysis.fetched /\ last_analysis.result = CACHE[k].data

\* C24: the correlation matrix of a report is n x n over the n tickers of the
\* report, symmetric, with CorrOne on its diagonal, and calculate_correlation
\* gives the same value for the returns of two tickers in either order.
C24_CorrelationMatrixSymmetric ==
    last_analysis.made /\ ~last_analysis.result.error =>
        LET r == last_analysis.result
            m == r.correlation_matrix
            labels == r.correlation_labels
            n == Len(labels)
            returns(i) == calculate_returns(r.aligned_prices[labels[i]])
        IN  /\ {labels[i] : i \in 1..n} = r.tickers
            /\ n = Cardinality(r.tickers)
            /\ Len(m) = n
            /\ \A i \in 1..n :
                  /\ Len(m[i]) = n
                  /\ m[i][i] = CorrOne
                  /\ \A j \in 1..n :
                        /\ m[i][j] = m[j][i]
                        /\ calculate_correlation(returns(i), returns(j))
                           = calculate_correlation(returns(j), returns(i))

\* A report over three tickers whose matrix has a negative correlation below
\* the diagonal.
C24_Witness ==
    /\ last_analysis.made /\ last_analysis.fetched
    /\ ~last_analysis.result.error
    /\ Len(last_analysis.result.correlation_labels) = 3
    /\ last_analysis.result.correlation_matrix[3][1] = Corr(-1, RInt(1))

\* C30: a report has at least two ticker entries, one for each requested
\* asset whose fetch yielded data, and a correlation matrix of at least 2 x 2.
C30_OneEntryPerFetchedAsset ==
    last_analysis.made /\ last_analysis.fetched /\ ~last_analysis.result.error =>
        /\ Len(last_analysis.result.correlation_labels) >= 2
        /\ Len(last_analysis.result.correlation_labels) = Len(Yielded)
        /\ Cardinality(last_analysis.result.tickers) = Len(Yielded)
        /\ Len(last_analysis.result.correlation_matrix) >= 2

(***************************************************************************)
(* calculate_returns, calculate_rolling_stats (analysis.py)                *)
(*                                                                         *)
(* Prices are None, 0 or powers of two.  A rolling volatility is           *)
(* np.std(w) * sqrt(252) * 100: it is kept as the population variance of   *)
(* the window, of which it is an increasing function.  A rolling mean is   *)
(* kept in units of ln 2.  A null element is << >>.                        *)
(***************************************************************************)
\* np.std(window_returns) squared: the population variance.
window_variance(w) ==
    Rat(Len(w) * SumSeq([k \in 1..Len(w) |-> w[k] * w[k]]) - SumSeq(w) * SumSeq(w),
        Len(w) * Len(w))

\* np.mean(window_returns) * 252 * 100
window_mean(w) == Rat(SumSeq(w) * 252 * 100, Len(w))

calculate_rolling_stats(ps, win) ==
    IF Len(ps) < win THEN [rolling_volatility |-> << >>, rolling_mean |-> << >>]
    ELSE LET rs == calculate_returns(ps)
             \* the element at index i = k - 1 of the loop
             window_returns(k) == SubSeq(rs, k - win + 1, k)
         IN  [rolling_volatility |->
                 [k \in 1..Len(rs) |->
                     IF k - 1 < win - 1 THEN << >> ELSE window_variance(window_returns(k))],
              rolling_mean |->
                 [k \in 1..Len(rs) |->
                     IF k - 1 < win - 1 THEN << >> ELSE window_mean(window_returns(k))]]

\* Bounds: the length of the price lists and the windows tried.
MaxPrices == 4
MaxWindow == 3
PriceValues == {None, 0, 1, 2, 8}
PriceLists == UNION {[1..n -> PriceValues] : n \in 0..MaxPrices}

InitSeries ==
    /\ pc = "call"
    /\ price_series \in PriceLists
    /\ rolling_window \in 1..MaxWindow
    /\ series_returns = << >>
    /\ rolling_stats = << >>
    /\ IdleCore /\ IdleRisk /\ IdleCache /\ IdleAnalysis /\ IdleBeta

CalculateReturns ==
    /\ series_returns = << >>
    /\ series_returns' = <<calculate_returns(price_series)>>
    /\ UNCHANGED <<pc, price_series, rolling_window, rolling_stats, coreVars, riskVars,
                   cacheVars, analysisVars, betaVars>>

CalculateRollingStats ==
    /\ rolling_stats = << >>
    /\ rolling_stats' = <<calculate_rolling_stats(price_series, rolling_window)>>
    /\ UNCHANGED <<pc, price_series, rolling_window, series_returns, coreVars, riskVars,
                   cacheVars, analysisVars, betaVars>>

NextSeries == CalculateReturns \/ CalculateRollingStats

SpecSeries == InitSeries /\ [][NextSeries]_vars

\* Both prices of the step that ends at position i + 1 are positive numbers.
PositiveStep(i) == price_series[i] > 0 /\ price_series[i + 1] > 0

\* C25: calculate_returns gives a list one shorter than the prices (empty
\* for no price or one), whose element for a step is the log of the price
\* ratio when both prices are positive and exactly 0 otherwise.
C25_ReturnsOneShorterZeroFilled ==
    series_returns # << >> =>
        LET r == series_returns[1]
        IN  /\ Len(r) = IF Len(price_series) <= 1 THEN 0 ELSE Len(price_series) - 1
            /\ \A i \in 1..Len(r) :
                  r[i] = IF PositiveStep(i)
                         THEN Log2(price_series[i + 1]) - Log2(price_series[i])
                         ELSE 0

\* Returns were taken of a list that has a step between positive prices, a
\* step from a missing price and a step to a zero price.
C25_Witness ==
    /\ series_returns # << >>
    /\ \E i \in 1..Len(series_returns[1]) : PositiveStep(i) /\ series_returns[1][i] # 0
    /\ \E i \in 1..Len(series_returns[1]) : price_series[i] = None /\ series_returns[1][i] = 0
    /\ \E i \in 1..Len(series_returns[1]) : price_series[i + 1] = 0 /\ series_returns[1][i] = 0

\* C26: both lists of calculate_rolling_stats have len(prices) - 1 elements;
\* an element is null exactly when fewer than `window` returns have been
\* observed up to its index, and is otherwise taken over the last `window`
\* returns.
C26_RollingOneShorter ==
    rolling_stats # << >> /\ Len(price_series) >= 1 =>
        LET rs == calculate_returns(price_series)
            out == rolling_stats[1]
        IN  /\ Len(out.rolling_volatility) = Len(price_series) - 1
            /\ Len(out.rolling_mean) = Len(price_series) - 1
            /\ \A k \in 1..Len(out.rolling_mean) :
                  IF k < rolling_window
                  THEN out.rolling_mean[k] = << >> /\ out.rolling_volatility[k] = << >>
                  ELSE LET w == SubSeq(rs, k - rolling_window + 1, k)
                       IN  /\ out.rolling_mean[k] = window_mean(w)
                           /\ out.rolling_volatility[k] = window_variance(w)

====
